---- MODULE Spec2Model ----
(***************************************************************************)
(* Model of the Korean PDF-to-text converter (enhanced_pdf_converter.py).  *)
(*                                                                         *)
(* A text is a sequence of character classes.  The classes are the ones   *)
(* the converter's regular expressions and str methods tell apart:         *)
(*   "GA"  a precomposed Hangul syllable              ([가-힣])            *)
(*   "CL"  a conjoining leading consonant U+1100      (\w, composes)       *)
(*   "CV"  a conjoining vowel U+1161                  (\w, composes)       *)
(*   "JA"  the compatibility vowel jamo U+314F        ([ㅏ-ㅣ])            *)
(*   "JEO" the compatibility vowel jamo U+3153        ([ㅏ-ㅣ])            *)
(*   "JG"  a compatibility consonant jamo             ([ㄱ-ㅎ])            *)
(*   "a"   an ASCII letter or digit                   (\w)                 *)
(*   "PU"  one of . , ! ? ( )                                              *)
(*   "NO"  any other printable character, e.g. - or #                      *)
(*   "SP"  a space, "NL" a newline                    (\s)                 *)
(*   "CT"  a control character of [\x00-\x08]                              *)
(*   "SU"  a lone UTF-16 surrogate code point                              *)
(***************************************************************************)
EXTENDS Integers, Sequences, FiniteSets, TLC

VARIABLES
    pdf_files,          \* self.pdf_files: the list the operator builds
    output_path,        \* self.output_path: "" until a folder is set
    is_converting,      \* self.is_converting: the cancellation flag
    convert_button,     \* state of the start button
    stop_button,        \* state of the stop button
    extraction_method,  \* self.extraction_method
    page_separator,     \* self.page_separator
    repair_options,     \* the four repair toggles
    available,          \* the libraries whose import succeeded
    documents,          \* environment: what each library does with each PDF
    locked,             \* environment: output files that cannot be opened
    disk,               \* environment: the files of the output folder
    worker,             \* where the convert_files thread stands
    position,           \* the list iterator of the worker's for loop
    current,            \* the pdf_path of the running iteration
    counts,             \* success_count, empty_count, error_count, korean_recovered
    done,               \* the completed iterations of this batch, in order
    summary,            \* the final summary, once reported
    finish_pending,     \* root.after(0, conversion_finished) is queued
    batches,            \* batches started so far
    edits,              \* list operations made since the first batch started
    started_with,       \* history: the list as it was when the batch was started
    fn_in,              \* function-level specifications: the argument
    fn_out              \* function-level specifications: the results so far

batch_vars ==
    <<pdf_files, output_path, is_converting, convert_button, stop_button,
      extraction_method, page_separator, repair_options, available, documents,
      locked, disk, worker, position, current, counts, done, summary,
      finish_pending, batches, edits, started_with>>

pure_vars == <<fn_in, fn_out>>

vars == <<batch_vars, pure_vars>>

\* ------------------------------------------------------------------ bounds

\* Longest text the function-level specifications enumerate.
MaxTextLen == 3

\* Batches the operator starts in one run of the model.
MaxBatches == 1

\* List operations (add, clear, remove) the operator makes once a batch has
\* been started; before that the list is built freely.
MaxEdits == 1

\* ------------------------------------------------------------ text helpers

Whitespace == {"SP", "NL"}

RECURSIVE TextsUpTo(_, _)
TextsUpTo(alphabet, n) ==
    IF n = 0 THEN {<<>>}
    ELSE LET shorter == TextsUpTo(alphabet, n - 1)
         IN  shorter \cup {Append(t, c) : t \in {s \in shorter : Len(s) = n - 1}, c \in alphabet}

Count(text, class) == Cardinality({p \in 1..Len(text) : text[p] \in class})

\* str.strip(): drop the leading and trailing whitespace.
Strip(text) ==
    LET keep == {p \in 1..Len(text) : text[p] \notin Whitespace}
    IN  IF keep = {} THEN <<>>
        ELSE LET lo == CHOOSE p \in keep : \A q \in keep : p <= q
                 hi == CHOOSE p \in keep : \A q \in keep : q <= p
             IN  SubSeq(text, lo, hi)

\* ------------------------------------------------- repair_korean_text

\* unicodedata.normalize('NFC', text) on the alphabet: a conjoining leading
\* consonant directly followed by a conjoining vowel composes to a syllable.
RECURSIVE NFC(_)
NFC(text) ==
    IF Len(text) = 0 THEN <<>>
    ELSE IF Len(text) >= 2 /\ text[1] = "CL" /\ text[2] = "CV"
         THEN <<"GA">> \o NFC(SubSeq(text, 3, Len(text)))
         ELSE <<text[1]>> \o NFC(Tail(text))

\* re.sub(vowel + r'([ㄱ-ㅎ])', r'\1' + vowel, text): one left-to-right pass
\* over non-overlapping matches.
RECURSIVE SwapVowel(_, _)
SwapVowel(vowel, text) ==
    IF Len(text) = 0 THEN <<>>
    ELSE IF Len(text) >= 2 /\ text[1] = vowel /\ text[2] = "JG"
         THEN <<"JG", vowel>> \o SwapVowel(vowel, SubSeq(text, 3, Len(text)))
         ELSE <<text[1]>> \o SwapVowel(vowel, Tail(text))

\* The broken_patterns table, applied in its dict order.  Of its six vowels
\* the alphabet holds the first two; the other four patterns match nothing.
FontRecovery(text) == SwapVowel("JEO", SwapVowel("JA", text))

StripSurrogates(text) == SelectSeq(text, LAMBDA c : c # "SU")

StripControl(text) == SelectSeq(text, LAMBDA c : c # "CT")

\* re.sub(r'\s+', ' ', text)
RECURSIVE CollapseSpaces(_)
CollapseSpaces(text) ==
    IF Len(text) = 0 THEN <<>>
    ELSE IF text[1] \in Whitespace
         THEN LET rest == CollapseSpaces(Tail(text))
              IN  IF Len(rest) > 0 /\ rest[1] = "SP" /\ Len(text) >= 2 /\ text[2] \in Whitespace
                  THEN rest
                  ELSE <<"SP">> \o rest
         ELSE <<text[1]>> \o CollapseSpaces(Tail(text))

\* re.sub(r'\n\s*\n', '\n\n', text): from a newline, the greedy \s* run is
\* cut back to its last newline.
RECURSIVE CollapseBlankLines(_)
CollapseBlankLines(text) ==
    IF Len(text) = 0 THEN <<>>
    ELSE LET n == Len(text)
             runEnd == CHOOSE e \in 1..n :
                          /\ \A p \in 1..e : text[p] \in Whitespace
                          /\ (e = n \/ text[e + 1] \notin Whitespace)
             closers == IF text[1] = "NL"
                        THEN {p \in 2..runEnd : text[p] = "NL"}
                        ELSE {}
         IN  IF text[1] = "NL" /\ closers # {}
             THEN LET last == CHOOSE p \in closers : \A q \in closers : q <= p
                  IN  <<"NL", "NL">> \o CollapseBlankLines(SubSeq(text, last + 1, n))
             ELSE <<text[1]>> \o CollapseBlankLines(Tail(text))

RepairOptions ==
    [unicode_normalization : BOOLEAN, font_recovery : BOOLEAN,
     charset_detection : BOOLEAN, broken_char_repair : BOOLEAN]

DefaultRepairOptions ==
    [unicode_normalization |-> TRUE, font_recovery |-> TRUE,
     charset_detection |-> TRUE, broken_char_repair |-> TRUE]

\* Step 1, "if self.unicode_normalization.get()".
NormalizeStep(text, opts) == IF opts.unicode_normalization THEN NFC(text) ELSE text

\* Step 2, "if self.font_recovery.get()".
FontRecoveryStep(text, opts) == IF opts.font_recovery THEN FontRecovery(text) ELSE text

\* Step 3, "if self.charset_detection.get()": the probe encodes and decodes
\* a copy and discards it.
CharsetProbeStep(text, opts) == text

\* Steps 4 to 6 and the final strip().
CleanupSteps(text) ==
    Strip(CollapseBlankLines(CollapseSpaces(StripControl(StripSurrogates(text)))))

repair_korean_text(text, opts) ==
    IF Len(text) = 0 \/ ~opts.broken_char_repair THEN text
    ELSE CleanupSteps(CharsetProbeStep(FontRecoveryStep(NormalizeStep(text, opts), opts), opts))

\* --------------------------------------------- evaluate_korean_quality

Hangul == {"GA"}

Jamo == {"JA", "JEO", "JG"}

\* Matched by r'[^\w\s가-힣ㄱ-ㅎㅏ-ㅣ.,!?()]'.
Broken == {"NO", "CT", "SU"}

\* len(re.findall(r'[가-힣]{2,}', text)): the maximal syllable runs of two
\* or more.
KoreanWords(text) ==
    Cardinality({p \in 1..Len(text) :
                    /\ text[p] \in Hangul
                    /\ (p = 1 \/ text[p - 1] \notin Hangul)
                    /\ p < Len(text)
                    /\ text[p + 1] \in Hangul})

Min(a, b) == IF a <= b THEN a ELSE b

Max(a, b) == IF a >= b THEN a ELSE b

\* The score as the exact fraction num/den, den > 0.  With n = total_chars,
\* k syllables, j jamo, w words and b broken characters the code adds
\* 100k/n + 50k/(k+j) + min(200w/n, 20) - 50b/n and floors the sum at 0.
\* Mutant of ScoreFloor: the sum is returned without the floor.
ScoreFloor_NoFloor(num) == num

ScoreFloor(num) == Max(0, num)

ScoreOf(n, k, j, w, b) ==
    IF n = 0 THEN [num |-> 0, den |-> 1]
    ELSE IF k + j > 0
         THEN [num |-> ScoreFloor(100 * k * (k + j) + 50 * k * n
                                  + Min(200 * w, 20 * n) * (k + j)
                                  - 50 * b * (k + j)),
               den |-> n * (k + j)]
         ELSE [num |-> ScoreFloor(100 * k + Min(200 * w, 20 * n) - 50 * b),
               den |-> n]

evaluate_korean_quality(text) ==
    ScoreOf(Len(Strip(text)), Count(text, Hangul), Count(text, Jamo),
            KoreanWords(text), Count(text, Broken))

ScoreLess(s, t) == s.num * t.den < t.num * s.den

ScoreEqual(s, t) == s.num * t.den = t.num * s.den

\* ------------------------------------------------------ backend adapters

\* What a library does with a document: it raises, or it yields the raw text
\* of each page.  A document is a function from the four libraries to that.
Raise == [raises |-> TRUE, pages |-> <<>>]

Pages(texts) == [raises |-> FALSE, pages |-> texts]

Backends == {"pdfminer", "pymupdf", "pdfplumber", "pypdf2"}

\* f"\n--- 페이지 {page_num + 1} ---\n", for a one-digit page number.
PageSeparatorLine ==
    <<"NL", "NO", "NO", "NO", "SP", "GA", "GA", "GA", "SP", "a", "SP", "NO", "NO", "NO", "NL">>

RECURSIVE Flatten(_)
Flatten(pages) ==
    IF Len(pages) = 0 THEN <<>> ELSE pages[1] \o Flatten(Tail(pages))

\* pdfminer hands back the whole document as one string, repaired once.
extract_text_pdfminer(outcome, opts) ==
    IF outcome.raises THEN [raised |-> TRUE, text |-> <<>>]
    ELSE [raised |-> FALSE, text |-> repair_korean_text(Flatten(outcome.pages), opts)]

RECURSIVE PagesRepaired(_, _, _, _)
PagesRepaired(pages, opts, separator, skipEmpty) ==
    IF Len(pages) = 0 THEN <<>>
    ELSE (IF separator THEN PageSeparatorLine ELSE <<>>)
         \o (IF skipEmpty /\ Len(pages[1]) = 0 THEN <<>>
             ELSE repair_korean_text(pages[1], opts) \o <<"NL">>)
         \o PagesRepaired(Tail(pages), opts, separator, skipEmpty)

extract_text_pymupdf_korean(outcome, opts, separator) ==
    IF outcome.raises THEN [raised |-> TRUE, text |-> <<>>]
    ELSE [raised |-> FALSE, text |-> PagesRepaired(outcome.pages, opts, separator, FALSE)]

extract_text_pypdf2(outcome, opts, separator) ==
    IF outcome.raises THEN [raised |-> TRUE, text |-> <<>>]
    ELSE [raised |-> FALSE, text |-> PagesRepaired(outcome.pages, opts, separator, FALSE)]

\* pdfplumber adds a page's text only "if page_text".
extract_text_pdfplumber(outcome, opts, separator) ==
    IF outcome.raises THEN [raised |-> TRUE, text |-> <<>>]
    ELSE [raised |-> FALSE, text |-> PagesRepaired(outcome.pages, opts, separator, TRUE)]

RunBackend(backend, doc, opts, separator) ==
    CASE backend = "pdfminer"   -> extract_text_pdfminer(doc[backend], opts)
      [] backend = "pymupdf"    -> extract_text_pymupdf_korean(doc[backend], opts, separator)
      [] backend = "pdfplumber" -> extract_text_pdfplumber(doc[backend], opts, separator)
      [] backend = "pypdf2"     -> extract_text_pypdf2(doc[backend], opts, separator)

\* ------------------------------------------- extract_text_smart_korean

\* The order in which the selector appends the available libraries.
Priority == <<"pdfminer", "pymupdf", "pdfplumber", "pypdf2">>

SmartMethods(installed) == SelectSeq(Priority, LAMBDA b : b \in installed)

\* "if current_score > korean_score or (current_score == korean_score and
\*  len(text) > len(best_text))"
\* Mutant of Better: the tie-break on length is left out.
Better_NoTieBreak(score, text, best) == ScoreLess(best.score, score)

Better(score, text, best) ==
    \/ ScoreLess(best.score, score)
    \/ (ScoreEqual(score, best.score) /\ Len(text) > Len(best.text))

\* One pass of the selector's loop body: `result` is what the call of
\* `method` gave, `score` its quality.  `calls` records each library call
\* made: the selector logs one line for it, whether it returned or raised.
SmartStep(method, result, score, best) ==
    IF ~result.raised /\ Better(score, result.text, best)
    THEN [text |-> result.text, method |-> method, score |-> score,
          calls |-> Append(best.calls, [method |-> method, raised |-> FALSE,
                                        text |-> result.text])]
    ELSE [best EXCEPT !.calls = Append(best.calls, [method |-> method,
                                                    raised |-> result.raised,
                                                    text |-> result.text])]

SmartTry(method, result, best) ==
    SmartStep(method, result, evaluate_korean_quality(result.text), best)

\* Mutant of SmartLoop: the first raise ends the loop.
RECURSIVE SmartLoop_AbortOnRaise(_, _, _, _, _)
SmartLoop_AbortOnRaise(methods, doc, opts, separator, best) ==
    IF Len(methods) = 0 THEN best
    ELSE IF RunBackend(methods[1], doc, opts, separator).raised
         THEN SmartTry(methods[1], RunBackend(methods[1], doc, opts, separator), best)
         ELSE SmartLoop_AbortOnRaise(Tail(methods), doc, opts, separator,
                  SmartTry(methods[1], RunBackend(methods[1], doc, opts, separator), best))

\* The selector's loop from the state `best` over the methods still to run.
RECURSIVE SmartLoop(_, _, _, _, _)
SmartLoop(methods, doc, opts, separator, best) ==
    IF Len(methods) = 0 THEN best
    ELSE SmartLoop(Tail(methods), doc, opts, separator,
                   SmartTry(methods[1], RunBackend(methods[1], doc, opts, separator), best))

extract_text_smart_korean(doc, installed, opts, separator) ==
    SmartLoop(SmartMethods(installed), doc, opts, separator,
              [text |-> <<>>, method |-> "", score |-> [num |-> 0, den |-> 1], calls |-> <<>>])

\* ----------------------------------------------- extract_text_from_pdf

\* The radio buttons offer the two selector modes and the installed ones of
\* pdfminer, pymupdf and pdfplumber.
Methods(installed) ==
    {"smart_korean", "all_methods"} \cup (installed \ {"pypdf2"})

\* Mutant of PinnedResult: the pinned library's raise is swallowed and an
\* empty text returned.
PinnedResult_Swallow(method, result) ==
    [raised |-> FALSE, text |-> result.text,
     calls |-> <<[method |-> method, raised |-> result.raised, text |-> result.text]>>,
     selector |-> FALSE]

\* A pinned library's raise leaves the function (re-raised).
PinnedResult(method, result) ==
    [raised |-> result.raised, text |-> result.text,
     calls |-> <<[method |-> method, raised |-> result.raised, text |-> result.text]>>,
     selector |-> FALSE]

\* Mutant of SelectorResult: the selector raises when no library returned.
SelectorResult_RaiseWhenAllFail(best) ==
    [raised |-> \A p \in 1..Len(best.calls) : best.calls[p].raised,
     text |-> best.text, calls |-> best.calls, selector |-> TRUE]

\* The selector catches every raise itself.
SelectorResult(best) ==
    [raised |-> FALSE, text |-> best.text, calls |-> best.calls, selector |-> TRUE]

extract_text_from_pdf(method, doc, installed, opts, separator) ==
    IF method \in {"pdfminer", "pymupdf", "pdfplumber", "pypdf2"} /\ method \in installed
    THEN PinnedResult(method, RunBackend(method, doc, opts, separator))
    ELSE SelectorResult(extract_text_smart_korean(doc, installed, opts, separator))

\* ------------------------------------------------ files and environment

\* An input path: its folder and the stem of its name (the name is stem.pdf).
PathA == [dir |-> "d1", stem |-> <<"a">>]

PathB == [dir |-> "d1", stem |-> <<"b">>]

PathC == [dir |-> "d2", stem |-> <<"a">>]

Paths == {PathA, PathB, PathC}

\* Path(filename).stem + ".txt"
OutputName(path) == path.stem \o <<".txt">>

\* Path(filename).stem + "_오류.txt"
\* (the suffix is written "_oryu" here)
ErrorName(path) == path.stem \o <<"_oryu", ".txt">>

OutNames == {OutputName(p) : p \in Paths} \cup {ErrorName(p) : p \in Paths}

NoFile == [kind |-> "none"]

\* Every library extracts Korean text, of differing quality.
DocText ==
    [b \in Backends |->
        CASE b = "pdfminer"   -> Pages(<< <<"JA", "JG", "GA">> >>)
          [] b = "pymupdf"    -> Pages(<< <<"GA", "GA", "SP", "a">> >>)
          [] b = "pdfplumber" -> Pages(<< <<"GA", "GA">> >>)
          [] b = "pypdf2"     -> Pages(<< <<"GA", "NO", "GA">> >>)]

\* Every library finds one page holding whitespace only.
DocBlank == [b \in Backends |-> Pages(<< <<"SP", "NL">> >>)]

\* Every library raises.
DocCorrupt == [b \in Backends |-> Raise]

\* Two libraries raise, two extract text.
DocPartial ==
    [b \in Backends |->
        CASE b = "pdfminer"   -> Raise
          [] b = "pymupdf"    -> Pages(<< <<"GA", "GA">> >>)
          [] b = "pdfplumber" -> Raise
          [] b = "pypdf2"     -> Pages(<< <<"a", "a">> >>)]

\* Two libraries raise, the others find no page or an empty string.
DocFailOrEmpty ==
    [b \in Backends |->
        CASE b = "pdfminer"   -> Pages(<< <<>> >>)
          [] b = "pymupdf"    -> Raise
          [] b = "pdfplumber" -> Pages(<<>>)
          [] b = "pypdf2"     -> Raise]

\* A scanned document: one page, no text on it, for every library.
DocScanned == [b \in Backends |-> Pages(<< <<>> >>)]

\* The folders the model is run over: what is stored under each path.
Environments ==
    {[p \in Paths |-> CASE p = PathA -> DocText [] p = PathB -> DocBlank [] p = PathC -> DocCorrupt],
     [p \in Paths |-> CASE p = PathA -> DocPartial [] p = PathB -> DocFailOrEmpty [] p = PathC -> DocScanned]}

\* The sets of libraries the model is run with.
InstalledSets == {Backends}

\* The repair settings the batch is run with.
RepairConfigs == {DefaultRepairOptions}

\* The output files the folder refuses to open for writing.
LockedSets == {{}, {OutputName(PathA), ErrorName(PathA)}, {OutputName(PathB)}}

\* --------------------------------------------------------- safe_write_text

\* open(filepath, 'w', ...) fails for every encoding of the list and for the
\* last resort alike when the file cannot be opened; otherwise the first
\* attempt (utf-8, errors='replace') writes the file.
safe_write_text(filepath, lockedFiles) ==
    IF filepath \in lockedFiles
    THEN [success |-> FALSE, encoding |-> "failed"]
    ELSE [success |-> TRUE, encoding |-> "utf-8"]

\* ------------------------------------------------------------ operator UI

\* update_file_count(): the first file's folder becomes the output folder
\* while none is set.
OutputPathAfter(files) ==
    IF Len(files) > 0 /\ output_path = "" THEN files[1].dir ELSE output_path

InList(files, path) == \E p \in 1..Len(files) : files[p] = path

RECURSIVE AppendNew(_, _)
AppendNew(files, more) ==
    IF Len(more) = 0 THEN files
    ELSE AppendNew(IF InList(files, more[1]) THEN files ELSE Append(files, more[1]),
                   Tail(more))

worker_vars == <<worker, position, current, counts, done, summary, finish_pending>>

option_vars == <<extraction_method, page_separator, repair_options, available>>

env_vars == <<documents, locked, disk>>

\* One more list operation, within the bound once a batch has been started.
Edited ==
    /\ batches = 0 \/ edits < MaxEdits
    /\ edits' = IF batches = 0 THEN edits ELSE edits + 1

add_files(chosen) ==
    /\ pdf_files' = AppendNew(pdf_files, chosen)
    /\ output_path' = OutputPathAfter(pdf_files')
    /\ Edited
    /\ UNCHANGED <<is_converting, convert_button, stop_button, batches, started_with>>
    /\ UNCHANGED <<worker_vars, option_vars, env_vars, pure_vars>>

\* The operator picks one file in the dialog.
AddFiles == \E path \in Paths : add_files(<<path>>)

\* os.listdir(folder) lists the folder's PDFs in an order of its own.
AddFolder ==
    \E folder \in {p.dir : p \in Paths} :
        LET inside == {p \in Paths : p.dir = folder}
        IN  \E listing \in [1..Cardinality(inside) -> inside] :
                /\ \A p, q \in 1..Cardinality(inside) : p # q => listing[p] # listing[q]
                /\ add_files(listing)

clear_files ==
    /\ pdf_files' = <<>>
    /\ output_path' = OutputPathAfter(pdf_files')
    /\ Edited
    /\ UNCHANGED <<is_converting, convert_button, stop_button, batches, started_with>>
    /\ UNCHANGED <<worker_vars, option_vars, env_vars, pure_vars>>

\* "for index in reversed(selected_indices): del self.pdf_files[index]"
remove_selected ==
    \E selected \in SUBSET (1..Len(pdf_files)) \ {{}} :
        /\ pdf_files' = SelectSeq([p \in 1..Len(pdf_files) |->
                                      IF p \in selected THEN NoFile ELSE pdf_files[p]],
                                  LAMBDA f : f # NoFile)
        /\ output_path' = OutputPathAfter(pdf_files')
        /\ Edited
        /\ UNCHANGED <<is_converting, convert_button, stop_button, batches, started_with>>
        /\ UNCHANGED <<worker_vars, option_vars, env_vars, pure_vars>>

\* A disabled button passes no click on.
start_conversion ==
    /\ convert_button = "normal"
    /\ batches < MaxBatches
    /\ Len(pdf_files) > 0
    /\ output_path # ""
    /\ is_converting' = TRUE
    /\ convert_button' = "disabled"
    /\ stop_button' = "normal"
    /\ worker' = "begin"
    /\ batches' = batches + 1
    /\ started_with' = pdf_files
    /\ UNCHANGED <<pdf_files, output_path, position, current, counts, done, summary,
                   finish_pending, edits>>
    /\ UNCHANGED <<option_vars, env_vars, pure_vars>>

\* Mutant of stop_conversion: stopping gives the start button back at once.
stop_conversion_EnablesStart ==
    /\ stop_button = "normal"
    /\ is_converting' = FALSE
    /\ convert_button' = "normal"
    /\ UNCHANGED <<pdf_files, output_path, stop_button, batches, edits, started_with>>
    /\ UNCHANGED <<worker_vars, option_vars, env_vars, pure_vars>>

stop_conversion ==
    /\ stop_button = "normal"
    /\ is_converting' = FALSE
    /\ UNCHANGED <<pdf_files, output_path, convert_button, stop_button, batches, edits,
                   started_with>>
    /\ UNCHANGED <<worker_vars, option_vars, env_vars, pure_vars>>

\* Mutant of conversion_finished: the buttons are reset, the flag is left.
conversion_finished_KeepsFlag ==
    /\ finish_pending
    /\ finish_pending' = FALSE
    /\ convert_button' = "normal"
    /\ stop_button' = "disabled"
    /\ UNCHANGED <<pdf_files, output_path, is_converting, batches, edits, started_with,
                   worker, position, current, counts, done, summary>>
    /\ UNCHANGED <<option_vars, env_vars, pure_vars>>

conversion_finished ==
    /\ finish_pending
    /\ finish_pending' = FALSE
    /\ convert_button' = "normal"
    /\ stop_button' = "disabled"
    /\ is_converting' = FALSE
    /\ UNCHANGED <<pdf_files, output_path, batches, edits, started_with, worker, position,
                   current, counts, done, summary>>
    /\ UNCHANGED <<option_vars, env_vars, pure_vars>>

\* ----------------------------------------------------------- convert_files

ZeroCounts ==
    [success_count |-> 0, empty_count |-> 0, error_count |-> 0, korean_recovered |-> 0]

NoSummary == [reported |-> FALSE, fatal |-> FALSE]

\* "전체 변환 오류" was logged and shown instead of a summary.
FatalSummary == [reported |-> FALSE, fatal |-> TRUE]

\* The thread starts: the counters are set to 0, the loop's iterator is made.
ConvertBegin ==
    /\ worker = "begin"
    /\ worker' = "loop"
    /\ position' = 0
    /\ counts' = ZeroCounts
    /\ done' = <<>>
    /\ summary' = NoSummary
    /\ UNCHANGED <<current, finish_pending>>
    /\ UNCHANGED <<pdf_files, output_path, is_converting, convert_button, stop_button,
                   batches, edits, started_with>>
    /\ UNCHANGED <<option_vars, env_vars, pure_vars>>

\* Mutant of NextFile: the flag is not tested at the top of the iteration.
NextFile_IgnoreFlag ==
    /\ worker = "loop"
    /\ IF position < Len(pdf_files)
       THEN /\ worker' = "file"
            /\ current' = pdf_files[position + 1]
            /\ position' = position + 1
       ELSE /\ worker' = "summary"
            /\ UNCHANGED <<current, position>>
    /\ UNCHANGED <<counts, done, summary, finish_pending>>
    /\ UNCHANGED <<pdf_files, output_path, is_converting, convert_button, stop_button,
                   batches, edits, started_with>>
    /\ UNCHANGED <<option_vars, env_vars, pure_vars>>

\* The top of an iteration: the iterator reads the list as it is now, then
\* the flag is tested.
NextFile ==
    /\ worker = "loop"
    /\ IF position < Len(pdf_files) /\ is_converting
       THEN /\ worker' = "file"
            /\ current' = pdf_files[position + 1]
            /\ position' = position + 1
       ELSE /\ worker' = "summary"
            /\ UNCHANGED <<current, position>>
    /\ UNCHANGED <<counts, done, summary, finish_pending>>
    /\ UNCHANGED <<pdf_files, output_path, is_converting, convert_button, stop_button,
                   batches, edits, started_with>>
    /\ UNCHANGED <<option_vars, env_vars, pure_vars>>

\* The body of one iteration for `path` once the extraction gave `r` and the
\* one save of the taken branch gave `save`: the try block saves name.txt
\* (the text, or the no-text explanation); only the except block, entered
\* when the extraction raised, saves name_오류.txt.
HasText(r) == ~r.raised /\ Len(Strip(r.text)) > 0

ArtifactKind(r) == IF r.raised THEN "error" ELSE IF HasText(r) THEN "text" ELSE "no_text"

ArtifactName(path, r) == IF r.raised THEN ErrorName(path) ELSE OutputName(path)

\* Mutant of Outcome: a file without text is counted as an error.
Outcome_EmptyIsError(r, save) ==
    IF r.raised THEN "error"
    ELSE IF HasText(r) THEN (IF save.success THEN "success" ELSE "error")
    ELSE "error"

Outcome(r, save) ==
    IF r.raised THEN "error"
    ELSE IF HasText(r) THEN (IF save.success THEN "success" ELSE "error")
    ELSE "empty"

\* Mutant of IterationRecord: the no-text branch goes on into the except
\* block, so the error file is written as well.
IterationRecord_TwoWrites(path, r, save) ==
    [path |-> path, method |-> extraction_method, selector |-> r.selector,
     calls |-> r.calls, raised |-> r.raised, text |-> r.text,
     status |-> Outcome(r, save), cancelled |-> ~is_converting,
     saved |-> save.success, encoding |-> save.encoding,
     wrote |-> (IF save.success
                THEN {[name |-> ArtifactName(path, r), kind |-> ArtifactKind(r)]}
                ELSE {})
               \cup (IF ArtifactKind(r) = "no_text" /\ ErrorName(path) \notin locked
                     THEN {[name |-> ErrorName(path), kind |-> "error"]}
                     ELSE {}),
     korean |-> HasText(r) /\ save.success /\ Count(r.text, Hangul) > 0]

IterationRecord(path, r, save) ==
    [path |-> path, method |-> extraction_method, selector |-> r.selector,
     calls |-> r.calls, raised |-> r.raised, text |-> r.text,
     status |-> Outcome(r, save), cancelled |-> ~is_converting,
     saved |-> save.success, encoding |-> save.encoding,
     wrote |-> IF save.success
               THEN {[name |-> ArtifactName(path, r), kind |-> ArtifactKind(r)]}
               ELSE {},
     korean |-> HasText(r) /\ save.success /\ Count(r.text, Hangul) > 0]

Saved(path, r) == IterationRecord(path, r, safe_write_text(ArtifactName(path, r), locked))

Iteration(path) ==
    Saved(path, extract_text_from_pdf(extraction_method, documents[path], available,
                                      repair_options, page_separator))

CountsAfter(c, it) ==
    [success_count |-> c.success_count + (IF it.status = "success" THEN 1 ELSE 0),
     empty_count |-> c.empty_count + (IF it.status = "empty" THEN 1 ELSE 0),
     error_count |-> c.error_count + (IF it.status = "error" THEN 1 ELSE 0),
     korean_recovered |-> c.korean_recovered + (IF it.korean THEN 1 ELSE 0)]

DiskAfter(d, it) ==
    [n \in OutNames |->
        IF \E a \in it.wrote : a.name = n
        THEN [kind |-> (CHOOSE a \in it.wrote : a.name = n).kind, source |-> it.path]
        ELSE d[n]]

Completed(it) ==
    /\ done' = Append(done, it)
    /\ counts' = CountsAfter(counts, it)
    /\ disk' = DiskAfter(disk, it)

ProcessFile ==
    /\ worker = "file"
    /\ Completed(Iteration(current))
    /\ worker' = "loop"
    /\ UNCHANGED <<position, current, summary, finish_pending, documents, locked>>
    /\ UNCHANGED <<pdf_files, output_path, is_converting, convert_button, stop_button,
                   batches, edits, started_with>>
    /\ UNCHANGED <<option_vars, pure_vars>>

\* Mutant of Summarize: the summary is reported whatever the flag says.
Summarize_Always ==
    /\ worker = "summary"
    /\ summary' = [reported |-> TRUE, fatal |-> FALSE,
                   success |-> counts.success_count,
                   empty |-> counts.empty_count,
                   error |-> counts.error_count,
                   total |-> counts.success_count + counts.empty_count + counts.error_count]
    /\ finish_pending' = TRUE
    /\ worker' = "idle"
    /\ UNCHANGED <<position, current, counts, done>>
    /\ UNCHANGED <<pdf_files, output_path, is_converting, convert_button, stop_button,
                   batches, edits, started_with>>
    /\ UNCHANGED <<option_vars, env_vars, pure_vars>>

\* After the loop: "if self.is_converting:" the summary is logged and shown;
\* then "finally: self.root.after(0, self.conversion_finished)" and the
\* thread ends.
Summarize ==
    /\ worker = "summary"
    /\ summary' = IF is_converting
                  THEN [reported |-> TRUE, fatal |-> FALSE,
                        success |-> counts.success_count,
                        empty |-> counts.empty_count,
                        error |-> counts.error_count,
                        total |-> counts.success_count + counts.empty_count + counts.error_count]
                  ELSE NoSummary
    /\ finish_pending' = TRUE
    /\ worker' = "idle"
    /\ UNCHANGED <<position, current, counts, done>>
    /\ UNCHANGED <<pdf_files, output_path, is_converting, convert_button, stop_button,
                   batches, edits, started_with>>
    /\ UNCHANGED <<option_vars, env_vars, pure_vars>>

\* A statement of convert_files outside the per-file try block raises (the
\* widget calls before the loop, or the ones between two files): the outer
\* "except Exception" logs and shows the error, no summary is reported, and
\* "finally" queues conversion_finished.  Nothing is deleted.
FatalRunFailure ==
    /\ worker \in {"begin", "loop"}
    /\ summary' = FatalSummary
    /\ finish_pending' = TRUE
    /\ worker' = "idle"
    /\ UNCHANGED <<position, current, counts, done>>
    /\ UNCHANGED <<pdf_files, output_path, is_converting, convert_button, stop_button,
                   batches, edits, started_with>>
    /\ UNCHANGED <<option_vars, env_vars, pure_vars>>

\* ------------------------------------------------------- the converter

\* The batch-level variables after __init__ and setup_ui, for the given
\* installation, options and environment.
Constructed(installed, method, separator, opts, docs, lockedFiles) ==
    /\ pdf_files = <<>>
    /\ output_path = ""
    /\ is_converting = FALSE
    /\ convert_button = "normal"
    /\ stop_button = "disabled"
    /\ available = installed
    /\ extraction_method = method
    /\ page_separator = separator
    /\ repair_options = opts
    /\ documents = docs
    /\ locked = lockedFiles
    /\ disk = [n \in OutNames |-> NoFile]
    /\ worker = "idle"
    /\ position = 0
    /\ current = PathA
    /\ counts = ZeroCounts
    /\ done = <<>>
    /\ summary = NoSummary
    /\ finish_pending = FALSE
    /\ batches = 0
    /\ edits = 0
    /\ started_with = <<>>

ConstructedDefault ==
    Constructed(Backends, "smart_korean", TRUE, DefaultRepairOptions,
                [p \in Paths |-> DocText], {})

Init ==
    /\ \E installed \in InstalledSets, separator \in BOOLEAN, opts \in RepairConfigs,
          docs \in Environments, lockedFiles \in LockedSets :
          \E method \in Methods(installed) :
              Constructed(installed, method, separator, opts, docs, lockedFiles)
    /\ fn_in = <<>>
    /\ fn_out = <<>>

Next ==
    \/ AddFiles
    \/ AddFolder
    \/ clear_files
    \/ remove_selected
    \/ start_conversion
    \/ stop_conversion
    \/ conversion_finished
    \/ ConvertBegin
    \/ NextFile
    \/ ProcessFile
    \/ Summarize
    \/ FatalRunFailure

Spec == Init /\ [][Next]_vars

\* ------------------------------------------------- claims on the batch

Iterations == {done[p] : p \in 1..Len(done)}

SomeRaised(it) == \E p \in 1..Len(it.calls) : it.calls[p].raised

TextArtifact(it) == [name |-> OutputName(it.path), kind |-> "text"]

NoTextArtifact(it) == [name |-> OutputName(it.path), kind |-> "no_text"]

ErrorArtifact(it) == [name |-> ErrorName(it.path), kind |-> "error"]

ArtifactsOnDisk == {n \in OutNames : disk[n] # NoFile}

\* C1 as stated: every completed iteration wrote exactly one artifact.
C1_ExactlyOneArtifact == \A it \in Iterations : Cardinality(it.wrote) = 1

\* C1, amended: a completed iteration wrote at most one artifact; it wrote
\* one exactly when its safe_write_text call reported success, and then the
\* one its outcome calls for: name.txt with the text (success), name.txt
\* with the no-text explanation (empty), name_오류.txt (extraction raised).
\* When the save failed it wrote none.
C1_AtMostOneArtifact ==
    \A it \in Iterations :
        /\ Cardinality(it.wrote) <= 1
        /\ ~it.saved => it.wrote = {}
        /\ (it.saved /\ it.status = "success") => it.wrote = {TextArtifact(it)}
        /\ (it.saved /\ it.status = "empty") => it.wrote = {NoTextArtifact(it)}
        /\ (it.saved /\ it.status = "error") => it.wrote = {ErrorArtifact(it)}
        /\ (it.status = "error" /\ ~it.raised) => ~it.saved

\* One batch holds an iteration whose save succeeded and wrote its one
\* artifact, and an iteration whose save failed and wrote nothing.
C1_Witness ==
    /\ \E it \in Iterations : it.saved /\ Cardinality(it.wrote) = 1
    /\ \E it \in Iterations : ~it.saved /\ it.wrote = {}

\* The batch of C2: three iterations, saved all three, of a file every
\* library extracts text from, a file every library finds only whitespace
\* in, and a file every called library raised on; the summary was reported.
YieldsText(it) ==
    \A p \in 1..Len(it.calls) : ~it.calls[p].raised /\ Len(Strip(it.calls[p].text)) > 0

YieldsWhitespace(it) ==
    \A p \in 1..Len(it.calls) : ~it.calls[p].raised /\ Len(Strip(it.calls[p].text)) = 0

EveryBackendRaised(it) == \A p \in 1..Len(it.calls) : it.calls[p].raised

BatchABC(a, b, c) ==
    /\ summary.reported
    /\ Len(done) = 3
    /\ {a, b, c} = 1..3
    /\ YieldsText(done[a])
    /\ YieldsWhitespace(done[b])
    /\ EveryBackendRaised(done[c])
    /\ \A p \in 1..3 : done[p].saved

C2_WitnessPinned == \E a, b, c \in 1..3 : BatchABC(a, b, c) /\ ~done[c].selector

\* The first batch, over three files and an output folder that was empty,
\* was cancelled after its first file and before its second, and has ended.
CancelledAfterFirst ==
    /\ batches = 1
    /\ worker = "idle"
    /\ Len(started_with) = 3
    /\ pdf_files = started_with
    /\ edits = 0
    /\ position = 1
    /\ Len(done) = 1
    /\ ~summary.fatal

C5_RaiseNeverFailsFile ==
    \A it \in Iterations :
        SomeRaised(it) =>
            /\ ~it.raised
            /\ ErrorArtifact(it) \notin it.wrote
            /\ it.status = "error" => ~it.saved

\* C5, amended: in the selector modes a library's raise is caught in the
\* selector and the library skipped; the file is not put in the error
\* outcome by it.  With a pinned library the raise is passed on to
\* convert_files, which logs it and puts the file in the error outcome.
C5_RaiseFailsFileOnlyWhenPinned ==
    \A it \in Iterations :
        SomeRaised(it) =>
            /\ it.selector =>
                  /\ ~it.raised
                  /\ ErrorArtifact(it) \notin it.wrote
                  /\ it.status = "error" => ~it.saved
            /\ ~it.selector =>
                  /\ it.raised
                  /\ it.status = "error"
                  /\ it.wrote \subseteq {ErrorArtifact(it)}

\* In a selector mode two libraries raised and the file ended in success.
C5_Witness ==
    \E it \in Iterations :
        /\ it.selector
        /\ SomeRaised(it)
        /\ it.status = "success"

\* C7: when every library the selector called raised or returned the empty
\* string, the selector returned the empty string and the file was
\* classified as empty.
C7_AllFailOrEmptyGivesEmpty ==
    \A it \in Iterations :
        (it.selector /\ \A p \in 1..Len(it.calls) : it.calls[p].raised \/ it.calls[p].text = <<>>) =>
            /\ it.text = <<>>
            /\ ~it.raised
            /\ it.status = "empty"

\* The selector met raising libraries and libraries returning the empty
\* string, and nothing else.
C7_Witness ==
    \E it \in Iterations :
        /\ it.selector
        /\ \A p \in 1..Len(it.calls) : it.calls[p].raised \/ it.calls[p].text = <<>>
        /\ \E p \in 1..Len(it.calls) : it.calls[p].raised
        /\ \E p \in 1..Len(it.calls) : ~it.calls[p].raised
        /\ it.status = "empty"

\* C10: in a batch that was not cancelled (it ran to its summary), every
\* file that was in the list when the batch started, and is in it still, has
\* gone through an iteration to its outcome.
C10_EveryFileProcessed ==
    summary.reported =>
        \A p \in 1..Len(started_with) :
            InList(pdf_files, started_with[p]) =>
                \E it \in Iterations : it.path = started_with[p]

\* C12 as stated: a file in work when stop_conversion is called is the last
\* one the batch runs, and its output artifact is written and kept.
C12_InFlightFileWritten ==
    \A p \in 1..Len(done) :
        done[p].cancelled =>
            /\ p = Len(done)
            /\ worker # "file"
            /\ done[p].wrote # {}
            /\ \A a \in done[p].wrote : disk[a.name] # NoFile

\* C12, amended: a file in work when stop_conversion is called is the last
\* one the batch runs; it runs to its outcome and is counted; the artifact
\* of its outcome is written if its save succeeds, and is then kept.
C12_InFlightFileFinished ==
    \A p \in 1..Len(done) :
        done[p].cancelled =>
            /\ p = Len(done)
            /\ worker # "file"
            /\ done[p].status \in {"success", "empty", "error"}
            /\ counts.success_count + counts.empty_count + counts.error_count = p
            /\ done[p].saved <=> done[p].wrote # {}
            /\ \A a \in done[p].wrote :
                  disk[a.name] = [kind |-> a.kind, source |-> done[p].path]

\* stop_conversion was called while the first of several files was in work:
\* the file was saved, the thread has ended, the other files were not run.
C12_Witness ==
    /\ worker = "idle"
    /\ edits = 0
    /\ Len(done) = 1
    /\ Len(started_with) > 1
    /\ done[1].cancelled
    /\ done[1].saved

\* C13: while a batch runs, no list operation changes the list the worker
\* iterates.
C13_ListFrozenDuringRun == [][worker # "idle" => pdf_files' = pdf_files]_vars

\* C14: the start button takes a click only while no worker exists: none is
\* about to run, none is in its loop or summary, and the conversion_finished
\* of the last one has run.
C14_SingleWorker ==
    /\ convert_button = "normal" => (worker = "idle" /\ ~finish_pending)
    /\ worker # "idle" => batches >= 1

\* stop_conversion was called while a file was in work: the worker is still
\* running and the start button is still disabled.
C14_Witness ==
    /\ worker = "file"
    /\ ~is_converting
    /\ stop_button = "normal"
    /\ convert_button = "disabled"

\* No library extracts any text on any page of the document.
ExtractsNothing(doc) ==
    \A b \in Backends :
        /\ ~doc[b].raises
        /\ Len(doc[b].pages) > 0
        /\ \A p \in 1..Len(doc[b].pages) : doc[b].pages[p] = <<>>

\* C16: a document no library extracts any text from is classified as empty
\* and gets the no-text explanation, with the page separator on or off.
C16_NoTextIsEmpty ==
    \A it \in Iterations :
        ExtractsNothing(documents[it.path]) =>
            /\ it.status = "empty"
            /\ it.wrote \subseteq {NoTextArtifact(it)}

StatusCount(status) == Cardinality({p \in 1..Len(done) : done[p].status = status})

\* C17: the three counters count the completed iterations, each one once
\* under its status, and a file counted as success or empty has its name.txt
\* written.
C17_CountersMatchArtifacts ==
    worker \in {"loop", "file", "summary", "idle"} =>
        /\ counts.success_count + counts.empty_count + counts.error_count = Len(done)
        /\ counts.success_count = StatusCount("success")
        /\ counts.empty_count = StatusCount("empty")
        /\ counts.error_count = StatusCount("error")
        /\ \A it \in Iterations :
              it.status \in {"success", "empty"} =>
                  \E a \in it.wrote : a.name = OutputName(it.path)

\* C19: after a batch that was not cancelled, every artifact an iteration
\* wrote is still the one on disk under its name, and the folder holds as
\* many artifacts as iterations saved one.
C19_NoOverwrite ==
    summary.reported =>
        /\ \A it \in Iterations : \A a \in it.wrote : disk[a.name].source = it.path
        /\ Cardinality(ArtifactsOnDisk) = Cardinality({p \in 1..Len(done) : done[p].saved})

\* ------------------------------------------------- return to idle, liveness

\* The converter in each of its modes, over one folder of documents and a
\* writable output folder.
InitIdle ==
    /\ \E separator \in BOOLEAN, method \in Methods(Backends) :
          Constructed(Backends, method, separator, DefaultRepairOptions,
                      [p \in Paths |->
                          CASE p = PathA -> DocText [] p = PathB -> DocBlank [] p = PathC -> DocCorrupt],
                      {})
    /\ fn_in = <<>>
    /\ fn_out = <<>>

\* Weak fairness of ProcessFile, written out: ProcessFile is enabled exactly
\* while worker = "file", so the step is taken or the thread is elsewhere,
\* again and again.
ProcessFileFair == []<><<ProcessFile>>_vars \/ []<>(worker # "file")

\* The thread is scheduled while it has a step to take, and the Tk main loop
\* runs a queued callback.
SpecIdle ==
    /\ InitIdle
    /\ [][Next]_vars
    /\ WF_vars(ConvertBegin)
    /\ WF_vars(NextFile)
    /\ ProcessFileFair
    /\ WF_vars(Summarize)
    /\ WF_vars(conversion_finished)

Idle ==
    /\ worker = "idle"
    /\ ~finish_pending
    /\ ~is_converting
    /\ convert_button = "normal"
    /\ stop_button = "disabled"

\* C18: a started batch leads to the idle converter, however it ends; and no
\* step, the failure outside the per-file loop included, removes a written
\* artifact.
C18_BackToIdle ==
    /\ (worker # "idle") ~> Idle
    /\ [][\A n \in OutNames : disk[n] # NoFile => disk'[n] # NoFile]_vars

\* A batch was ended by a failure outside the per-file loop after a file had
\* been written; the artifact is on disk and the converter is idle again.
C18_Witness ==
    /\ Idle
    /\ summary.fatal
    /\ Len(done) >= 1
    /\ \E a \in done[1].wrote : disk[a.name] # NoFile

\* -------------------------------------------------- scorer, function level

ScoreAlphabet == {"GA", "JA", "JG", "a", "PU", "NO", "SP", "NL"}

InitScore ==
    /\ ConstructedDefault
    /\ fn_in \in [text : TextsUpTo(ScoreAlphabet, MaxTextLen)]
    /\ fn_out = <<>>

Evaluate ==
    /\ fn_out = <<>>
    /\ fn_out' = <<evaluate_korean_quality(fn_in.text)>>
    /\ UNCHANGED <<fn_in, batch_vars>>

NextScore == Evaluate

SpecScore == InitScore /\ [][NextScore]_vars

\* Only word characters, whitespace and the punctuation . , ! ? ( ).
PlainProse(text) == \A p \in 1..Len(text) : text[p] \in {"a", "PU", "SP", "NL"}

\* C9: the score is exactly 0 for the empty text and for every text without
\* syllables, jamo and noise characters; for every other text it is not
\* negative.
C9_ScoreZeroOrNonNegative ==
    fn_out # <<>> =>
        /\ fn_out[1].den > 0
        /\ fn_out[1].num >= 0
        /\ PlainProse(fn_in.text) => fn_out[1].num = 0

\* A text with noise and no Hangul has been scored, and so has plain prose.
C9_Witness ==
    /\ fn_out # <<>>
    /\ fn_in.text = <<"a", "NO", "a">>
    /\ fn_out[1].num = 0

\* ------------------------------------------------ repairer, function level

RepairAlphabet == {"CL", "CV", "JA", "JEO", "JG", "a", "SP", "NL", "CT", "SU"}

InitRepair ==
    /\ ConstructedDefault
    /\ fn_in \in [text : TextsUpTo(RepairAlphabet, MaxTextLen), opts : RepairOptions]
    /\ fn_out = <<>>

\* The caller repairs a text; applied again, it repairs the previous output.
Repair ==
    /\ Len(fn_out) < 2
    /\ fn_out' = Append(fn_out,
                        repair_korean_text(IF fn_out = <<>> THEN fn_in.text ELSE fn_out[Len(fn_out)],
                                           fn_in.opts))
    /\ UNCHANGED <<fn_in, batch_vars>>

NextRepair == Repair

SpecRepair == InitRepair /\ [][NextRepair]_vars

\* C8: the repairer is idempotent: under fixed toggles, repairing its own
\* output gives that output back.
C8_RepairIdempotent == Len(fn_out) = 2 => fn_out[2] = fn_out[1]

\* ------------------------------------------------ selector, function level

\* What one library may do with the document handed to the selector.
SelectOutcomes ==
    {Raise,
     Pages(<<>>),
     Pages(<< <<>> >>),
     Pages(<< <<"SP">> >>),
     Pages(<< <<"GA", "GA">> >>),
     Pages(<< <<"a", "a", "a">> >>),
     Pages(<< <<"GA", "JA">>, <<"a">> >>)}

AvailableSets == SUBSET Backends \ {{}}

InitSelect ==
    /\ ConstructedDefault
    /\ fn_in \in [doc : [Backends -> SelectOutcomes], available : AvailableSets,
                  opts : {DefaultRepairOptions,
                          [DefaultRepairOptions EXCEPT !.broken_char_repair = FALSE]},
                  separator : BOOLEAN]
    /\ fn_out = <<>>

Select ==
    /\ fn_out = <<>>
    /\ fn_out' = <<extract_text_smart_korean(fn_in.doc, fn_in.available,
                                             fn_in.opts, fn_in.separator)>>
    /\ UNCHANGED <<fn_in, batch_vars>>

NextSelect == Select

SpecSelect == InitSelect /\ [][NextSelect]_vars

\* The candidates: the texts of the libraries that did not raise.
Candidates(calls) == {calls[p].text : p \in {q \in 1..Len(calls) : ~calls[q].raised}}

NotWorse(st, so, text, other) ==
    /\ ~ScoreLess(st, so)
    /\ ScoreEqual(st, so) => Len(text) >= Len(other)

AtLeastAsGood(text, other) ==
    NotWorse(evaluate_korean_quality(text), evaluate_korean_quality(other), text, other)

\* C4: the returned text scores at least as high as every candidate, and is
\* at least as long as every candidate of its own score.
C4_ChosenIsBest ==
    fn_out # <<>> =>
        \A c \in Candidates(fn_out[1].calls) : AtLeastAsGood(fn_out[1].text, c)

\* Two candidates tie on a positive score and differ in length, a third
\* scores lower; the longer of the tied ones was returned.
C4_Witness ==
    /\ fn_out # <<>>
    /\ \E c, d \in Candidates(fn_out[1].calls) :
          /\ c = fn_out[1].text
          /\ ScoreEqual(evaluate_korean_quality(c), evaluate_korean_quality(d))
          /\ evaluate_korean_quality(c).num > 0
          /\ Len(c) > Len(d)
    /\ \E e \in Candidates(fn_out[1].calls) :
          ScoreLess(evaluate_korean_quality(e), evaluate_korean_quality(fn_out[1].text))

\* C6: a raise does not end the selection: every available library is called,
\* in priority order, whichever of them raise, and the returned text is a
\* candidate that is at least as good as every other one.
C6_RaiseDoesNotAbort ==
    fn_out # <<>> =>
        LET calls == fn_out[1].calls
            order == SmartMethods(fn_in.available)
        IN  /\ Len(calls) = Len(order)
            /\ \A p \in 1..Len(calls) :
                  /\ calls[p].method = order[p]
                  /\ calls[p].raised <=> (fn_in.doc[order[p]] = Raise)
            /\ fn_out[1].text # <<>> => fn_out[1].text \in Candidates(calls)
            /\ \A c \in Candidates(calls) :
                  ~ScoreLess(evaluate_korean_quality(fn_out[1].text), evaluate_korean_quality(c))

\* The first library raised, a later one raised too, and the text of the
\* last library was returned.
C6_Witness ==
    /\ fn_out # <<>>
    /\ fn_in.available = Backends
    /\ fn_in.doc["pdfminer"] = Raise
    /\ fn_in.doc["pdfplumber"] = Raise
    /\ fn_out[1].method = "pypdf2"
    /\ fn_out[1].text # <<>>

\* ----------------------------------------- safe_write_text, function level

\* The characters of the 7-bit range.
Ascii == {"a", "PU", "NO", "SP", "NL", "CT"}

\* "encodings = [...]": the list of the platform, in its order.
Encodings(os_name) ==
    IF os_name = "Windows" THEN <<"utf-8", "cp949", "ascii">>
    ELSE <<"utf-8", "latin-1", "ascii">>

\* What the codec of open(..., encoding=enc) can encode: utf-8 everything
\* but a lone surrogate; cp949 the syllables and the compatibility jamo, not
\* the conjoining jamo; latin-1 and ascii none of the Korean classes.
Encodable(ch, enc) ==
    CASE enc = "utf-8" -> ch # "SU"
      [] enc = "cp949" -> ch \in Ascii \cup {"GA", "JA", "JEO", "JG"}
      [] enc = "latin-1" -> ch \in Ascii
      [] enc = "ascii" -> ch \in Ascii

\* file.write(text) under errors='replace': a character the codec cannot
\* encode is written as '?', which is a character of class "PU".
Encode(text, enc) ==
    [p \in 1..Len(text) |-> IF Encodable(text[p], enc) THEN text[p] ELSE "PU"]

\* The last resort: "char if ord(char) < 128 else '?'", written as ascii.
LastResortText(text) ==
    [p \in 1..Len(text) |-> IF text[p] \in Ascii THEN text[p] ELSE "PU"]

\* "return False, ..." / the last resort, reached after every listed
\* encoding failed; attempts[4] tells whether its open and write go through.
LastResort(text, attempts, tried) ==
    IF attempts[4]
    THEN [success |-> TRUE, encoding |-> "ASCII (loss)", written |-> TRUE,
          content |-> LastResortText(text), tried |-> Append(tried, "last resort")]
    ELSE [success |-> FALSE, encoding |-> "failed", written |-> FALSE,
          content |-> <<>>, tried |-> Append(tried, "last resort")]

\* Mutant of TryEncodings: a successful attempt does not end the loop; the
\* last encoding that worked is reported.
RECURSIVE TryEncodings_LastWins(_, _, _, _, _)
TryEncodings_LastWins(encodings, text, attempts, k, tried) ==
    IF k > Len(encodings) THEN LastResort(text, attempts, tried)
    ELSE IF attempts[k] /\ \A j \in (k + 1)..Len(encodings) : ~attempts[j]
         THEN [success |-> TRUE, encoding |-> encodings[k], written |-> TRUE,
               content |-> Encode(text, encodings[k]),
               tried |-> Append(tried, encodings[k])]
         ELSE TryEncodings_LastWins(encodings, text, attempts, k + 1,
                                    Append(tried, encodings[k]))

\* "for enc in encodings: try: ... return True, enc / except: continue" from
\* the k-th encoding on; attempts[k] tells whether the k-th open and write
\* go through.
RECURSIVE TryEncodings(_, _, _, _, _)
TryEncodings(encodings, text, attempts, k, tried) ==
    IF k > Len(encodings) THEN LastResort(text, attempts, tried)
    ELSE IF attempts[k]
         THEN [success |-> TRUE, encoding |-> encodings[k], written |-> TRUE,
               content |-> Encode(text, encodings[k]),
               tried |-> Append(tried, encodings[k])]
         ELSE TryEncodings(encodings, text, attempts, k + 1,
                           Append(tried, encodings[k]))

\* safe_write_text(filepath, text) on the given platform, with the outcome
\* of each attempt to open and write the file given by the environment.
WriteText(os_name, text, attempts) ==
    TryEncodings(Encodings(os_name), text, attempts, 1, <<>>)

WriteAlphabet == {"GA", "CL", "a", "NL", "SU"}

Platforms == {"Windows", "Linux"}

InitWrite ==
    /\ ConstructedDefault
    /\ fn_in \in [text : TextsUpTo(WriteAlphabet, MaxTextLen), os_name : Platforms,
                  attempts : [1..4 -> BOOLEAN]]
    /\ fn_out = <<>>

Write ==
    /\ fn_out = <<>>
    /\ fn_out' = <<WriteText(fn_in.os_name, fn_in.text, fn_in.attempts)>>
    /\ UNCHANGED <<fn_in, batch_vars>>

NextWrite == Write

SpecWrite == InitWrite /\ [][NextWrite]_vars

PlainEncodingNames == {"utf-8", "cp949", "latin-1", "ascii"}

\* C11: when the written file is not a faithful encoding of the text, the
\* reported result is not a plain encoding name; a plain encoding name is
\* reported only when the text was written without loss.
C11_LossIsReported ==
    (fn_out # <<>> /\ fn_out[1].written /\ fn_out[1].encoding \in PlainEncodingNames) =>
        fn_out[1].content = fn_in.text

FirstWorking(attempts) == CHOOSE k \in 1..4 : attempts[k] /\ \A j \in 1..(k - 1) : ~attempts[j]

\* C15: the encodings are tried in the order of the platform's list, each
\* one only after the ones before it failed; the first that works ends the
\* loop and its name is reported.  The lossy-ASCII marker is reported
\* exactly when all three failed and the last resort worked, and failure
\* exactly when the last resort failed too.
C15_FirstWorkingEncoding ==
    fn_out # <<>> =>
        LET r == fn_out[1]
            order == Encodings(fn_in.os_name) \o <<"last resort">>
            a == fn_in.attempts
        IN  /\ order \in {<<"utf-8", "cp949", "ascii", "last resort">>,
                          <<"utf-8", "latin-1", "ascii", "last resort">>}
            /\ (fn_in.os_name = "Windows") <=> (order[2] = "cp949")
            /\ r.tried = SubSeq(order, 1, Len(r.tried))
            /\ \A k \in 1..(Len(r.tried) - 1) : ~a[k]
            /\ r.success <=> \E k \in 1..4 : a[k]
            /\ r.success => Len(r.tried) = FirstWorking(a)
            /\ (r.success /\ Len(r.tried) <= 3) => r.encoding = order[Len(r.tried)]
            /\ (r.encoding = "ASCII (loss)") <=> (~a[1] /\ ~a[2] /\ ~a[3] /\ a[4])
            /\ (r.encoding = "failed") <=> (~a[1] /\ ~a[2] /\ ~a[3] /\ ~a[4])
            /\ r.written <=> r.success

\* On Windows utf-8 failed, cp949 worked and ascii would have worked too:
\* cp949 was reported and ascii never tried.
C15_Witness ==
    /\ fn_out # <<>>
    /\ fn_in.os_name = "Windows"
    /\ fn_in.attempts = [k \in 1..4 |-> k # 1]
    /\ fn_out[1].encoding = "cp949"
    /\ fn_out[1].tried = <<"utf-8", "cp949">>

====
